---- MODULE Spec2Model ----
(***************************************************************************)
(* Model of the Browser base class of webrider (src/src/KEY.js, lines      *)
(* 95-273): the session-parameters document and the operations mutating it *)
(* (setAlwaysMatchKey, addFirstMatch, setRootKey, setSpecificKey), plus    *)
(* setExecutable and run.                                                  *)
(*                                                                         *)
(* The document is a tree.  It is represented as a function from node      *)
(* paths (sequences of keys) to node kinds: "map" for a mapping, "seq" for *)
(* an array, or a scalar.  The domain is prefix-closed; the root <<>> is    *)
(* always a mapping (this.sessionParameters is never reassigned).          *)
(*                                                                         *)
(* A path STRING, as passed by callers, is a sequence of characters; a     *)
(* run of non-dot characters is abstracted as one token, and "." is the    *)
(* separator character.  Split turns a path string into its segments.      *)
(***************************************************************************)
EXTENDS Integers, Sequences, FiniteSets, TLC

\* ---------------------------------------------------------------- bounds
\* Maximum number of operations in one run.
MaxSteps == 2

\* Maximum number of elements pushed to capabilities.firstMatch.
MaxFirstMatch == 2

\* ---------------------------------------------------------------- inputs
Null == "null"

\* Scalar values callers pass as `value`.
Values == {"x", "y"}

\* The `force` argument: omitted (the default applies), true or false.
ForceArgs == {"omitted", "true", "false"}

\* Path strings callers pass, well-formed and malformed.
PathStrings ==
  { <<"a">>,
    <<"a", ".", "b">>,
    <<"capabilities">>,
    <<"capabilities", ".", "firstMatch", ".", "0">>,
    <<"a", ".", ".", "b">>,
    <<"a", ".">>,
    <<>> }

\* Names given to addFirstMatch.
Names == {"browserName", "platformName"}

\* Driver binary paths given to setExecutable.
Executables == {"/bin/driver", "/missing"}

\* Array index i (0-based) as a property key.
IndexKeys == <<"0", "1", "2", "3">>

IndexKey(i) == IndexKeys[i + 1]

\* ------------------------------------------------------ deep get and set
Containers == {"map", "seq"}

\* String.prototype.split('.'): the segments of a path string.
RECURSIVE SplitAcc(_, _, _)
SplitAcc(s, cur, acc) ==
  IF s = <<>> THEN Append(acc, cur)
  ELSE IF Head(s) = "." THEN SplitAcc(Tail(s), "", Append(acc, cur))
  ELSE SplitAcc(Tail(s), cur \o Head(s), acc)

Split(s) == SplitAcc(s, "", <<>>)

IsPrefix(p, q) == Len(p) <= Len(q) /\ SubSeq(q, 1, Len(p)) = p

IsStrictPrefix(p, q) == Len(p) < Len(q) /\ IsPrefix(p, q)

\* DO.get(obj, path) where obj is the node at `base`: is anything there?
DOdefined(doc, base, path) == (base \o Split(path)) \in DOMAIN doc

\* The value (subtree) at node path p; the empty set when nothing is there.
ValueAt(doc, p) ==
  { <<SubSeq(q, Len(p) + 1, Len(q)), doc[q]>> : q \in {r \in DOMAIN doc : IsPrefix(p, r)} }

Undefined == {}

Scalar(v) == { <<(<<>>), v>> }

\* DO.set(obj, path, value) where obj is the container node at `base`:
\* walk the segments, creating intermediate mappings as needed, and assign
\* the last one.
DOset(doc, base, path, value) ==
  LET target == base \o Split(path)
      inter  == { SubSeq(target, 1, n) : n \in Len(base)..(Len(target) - 1) }
      kept   == { q \in DOMAIN doc : ~IsStrictPrefix(target, q) }
  IN  [ q \in kept \cup inter \cup {target} |->
          IF q = target THEN value
          ELSE IF q \in inter
                 THEN IF q \in DOMAIN doc /\ doc[q] \in Containers THEN doc[q] ELSE "map"
                 ELSE doc[q] ]

\* ----------------------------------------------------------------- state
VARIABLES
  sessionParameters,  \* this.sessionParameters
  name,               \* this.name
  specificKey,        \* this.specificKey
  executable,         \* this.executable
  _executable,        \* this._executable
  runResult,          \* outcome of the promise returned by run()
  spawned,            \* whether a driver process was spawned
  op,                 \* the last operation called
  argPath,            \* its path (or name) argument
  argValue,           \* its value argument
  argForce,           \* its force argument
  threw,              \* whether it raised
  prev,               \* sessionParameters before it
  steps

vars == <<sessionParameters, name, specificKey, executable, _executable,
          runResult, spawned, op, argPath, argValue, argForce, threw, prev, steps>>

CAP == <<"capabilities">>

AM == <<"capabilities", "alwaysMatch">>

FM == <<"capabilities", "firstMatch">>

\* The document the constructor builds.
EmptyDocument ==
  ( <<>> :> "map" ) @@ ( CAP :> "map" ) @@ ( AM :> "map" ) @@ ( FM :> "seq" )

\* The concrete variants: the base class itself, and a Chrome-like subclass
\* whose constructor sets specificKey and seeds chromeOptions.w3c.
Variants == {"browser", "chrome"}

VariantSpecificKey(v) == IF v = "chrome" THEN "chromeOptions" ELSE Null

VariantDocument(v) ==
  IF v = "chrome"
    THEN DOset(EmptyDocument, AM, <<"chromeOptions", ".", "w3c">>, "true")
    ELSE EmptyDocument

Init ==
  \E v \in Variants :
    /\ sessionParameters = VariantDocument(v)
    /\ name = v
    /\ specificKey = VariantSpecificKey(v)
    /\ executable = Null
    /\ _executable = Null
    /\ runResult = "none"
    /\ spawned = FALSE
    /\ op = "constructor"
    /\ argPath = <<>>
    /\ argValue = Null
    /\ argForce = "omitted"
    /\ threw = FALSE
    /\ prev = VariantDocument(v)
    /\ steps = 0

\* ------------------------------------------------------------ operations
\* A parameter with a default value: `force = dflt`.
Default(force, dflt) == IF force = "omitted" THEN dflt ELSE force = "true"

\* What every configuration call records about itself.
Called(o, path, value, force, t) ==
  /\ steps < MaxSteps
  /\ steps' = steps + 1
  /\ op' = o
  /\ argPath' = path
  /\ argValue' = value
  /\ argForce' = force
  /\ threw' = t
  /\ prev' = sessionParameters

Unconfigured == UNCHANGED <<name, specificKey, executable, _executable, runResult, spawned>>

\* A property read or write on a value that is not an object: reading from
\* undefined raises; assigning to a property of a primitive has no effect
\* and, depending on the strictness of the assigning code, may raise.
PrimitiveAccess(o, path, value, force, isUndefined) ==
  /\ \E t \in BOOLEAN : (isUndefined => t) /\ Called(o, path, value, force, t)
  /\ UNCHANGED sessionParameters

setAlwaysMatchKey(path, value, force) ==
  /\ IF AM \in DOMAIN sessionParameters /\ sessionParameters[AM] \in Containers
       THEN /\ Called("setAlwaysMatchKey", path, value, force, FALSE)
            /\ IF Default(force, FALSE) \/ ~DOdefined(sessionParameters, AM, path)
                 THEN sessionParameters' = DOset(sessionParameters, AM, path, value)
                 ELSE UNCHANGED sessionParameters
       ELSE PrimitiveAccess("setAlwaysMatchKey", path, value, force,
                            AM \notin DOMAIN sessionParameters)
  /\ Unconfigured

\* Array.prototype.length of the array node at p: one more than the largest
\* index present.
Length(doc, p) ==
  LET present == { i \in 0..(Len(IndexKeys) - 1) : Append(p, IndexKey(i)) \in DOMAIN doc }
  IN  IF present = {} THEN 0
      ELSE (CHOOSE i \in present : \A j \in present : j <= i) + 1

\* Array.prototype.indexOf(n) on the array node at p: the first index whose
\* element is strictly equal to n, or -1.
IndexOf(doc, p, n) ==
  LET hits == { i \in 0..(Length(doc, p) - 1) :
                  /\ Append(p, IndexKey(i)) \in DOMAIN doc
                  /\ doc[Append(p, IndexKey(i))] = n }
  IN  IF hits = {} THEN 0 - 1
      ELSE CHOOSE i \in hits : \A j \in hits : i <= j

\* `!n` for a number n.
LogicalNot(n) == (n = 0)

\* `b === n` for a boolean b and a number n: operands of different types
\* are never strictly equal.
StrictEqualsNumber(b, n) == FALSE

\* Array.prototype.push({ [n]: value }) on the array node at p.
Push(doc, p, n, value) ==
  LET el == Append(p, IndexKey(Length(doc, p)))
  IN  ( el :> "map" ) @@ ( Append(el, n) :> value ) @@ doc

addFirstMatch(n, value, force) ==
  /\ IF FM \in DOMAIN sessionParameters /\ sessionParameters[FM] = "seq"
       THEN /\ Called("addFirstMatch", <<n>>, value, force, FALSE)
            /\ IF \/ Default(force, FALSE)
                  \/ StrictEqualsNumber(LogicalNot(IndexOf(sessionParameters, FM, n)), 0 - 1)
                 THEN /\ Length(sessionParameters, FM) < MaxFirstMatch
                      /\ sessionParameters' = Push(sessionParameters, FM, n, value)
                 ELSE UNCHANGED sessionParameters
       ELSE \* push and indexOf are not functions of a non-array; a string
            \* scalar has an indexOf, which is reached only when force is falsy.
            PrimitiveAccess("addFirstMatch", <<n>>, value, force,
                            \/ FM \notin DOMAIN sessionParameters
                            \/ sessionParameters[FM] = "map"
                            \/ Default(force, FALSE))
  /\ Unconfigured

\* setRootKey with the default the other setters have (force = false).
setRootKey_DefaultFalse(path, value, force) ==
  /\ Called("setRootKey", path, value, force, FALSE)
  /\ IF Default(force, FALSE) \/ ~DOdefined(sessionParameters, <<>>, path)
       THEN sessionParameters' = DOset(sessionParameters, <<>>, path, value)
       ELSE UNCHANGED sessionParameters
  /\ Unconfigured

setRootKey(path, value, force) ==
  /\ Called("setRootKey", path, value, force, FALSE)
  /\ IF Default(force, TRUE) \/ ~DOdefined(sessionParameters, <<>>, path)
       THEN sessionParameters' = DOset(sessionParameters, <<>>, path, value)
       ELSE UNCHANGED sessionParameters
  /\ Unconfigured

\* setSpecificKey without the check of this.specificKey: null is
\* concatenated as the key "null".
setSpecificKey_Unguarded(path, value, force) ==
  /\ Called("setSpecificKey", path, value, force, FALSE)
  /\ IF \/ Default(force, TRUE)
        \/ ~DOdefined(sessionParameters, <<>>, <<specificKey, ".">> \o path)
       THEN sessionParameters' =
              DOset(sessionParameters, <<>>,
                    <<"capabilities", ".", "alwaysMatch", ".", specificKey, ".">> \o path,
                    value)
       ELSE UNCHANGED sessionParameters
  /\ Unconfigured

setSpecificKey(path, value, force) ==
  /\ IF specificKey = Null
       THEN /\ Called("setSpecificKey", path, value, force, TRUE)
            /\ UNCHANGED sessionParameters
       ELSE /\ Called("setSpecificKey", path, value, force, FALSE)
            /\ IF \/ Default(force, TRUE)
                  \/ ~DOdefined(sessionParameters, <<>>, <<specificKey, ".">> \o path)
                 THEN sessionParameters' =
                        DOset(sessionParameters, <<>>,
                              <<"capabilities", ".", "alwaysMatch", ".", specificKey, ".">> \o path,
                              value)
                 ELSE UNCHANGED sessionParameters
  /\ Unconfigured

getSessionParameters == sessionParameters

setExecutable(e) ==
  /\ Called("setExecutable", <<>>, e, "omitted", FALSE)
  /\ _executable' = e
  /\ UNCHANGED <<sessionParameters, name, specificKey, executable, runResult, spawned>>

\* The base class's run: an async function with an empty body.  Its promise
\* resolves; nothing is spawned.  Subclasses override it.
run ==
  /\ name = "browser"
  /\ Called("run", <<>>, Null, "omitted", FALSE)
  /\ runResult' = "resolved"
  /\ UNCHANGED <<sessionParameters, name, specificKey, executable, _executable, spawned>>

Next ==
  \/ \E p \in PathStrings, v \in Values, f \in ForceArgs : setAlwaysMatchKey(p, v, f)
  \/ \E n \in Names, v \in Values, f \in ForceArgs : addFirstMatch(n, v, f)
  \/ \E p \in PathStrings, v \in Values, f \in ForceArgs : setRootKey(p, v, f)
  \/ \E p \in PathStrings, v \in Values, f \in ForceArgs : setSpecificKey(p, v, f)
  \/ \E e \in Executables : setExecutable(e)
  \/ run

Spec == Init /\ [][Next]_vars

TypeOK ==
  /\ <<>> \in DOMAIN sessionParameters /\ sessionParameters[<<>>] = "map"
  /\ \A q \in DOMAIN sessionParameters :
       q # <<>> => SubSeq(q, 1, Len(q) - 1) \in DOMAIN sessionParameters
  /\ CAP \in DOMAIN sessionParameters
  /\ steps \in 0..MaxSteps

\* ---------------------------------------------------------------- claims
PathSetters == {"setAlwaysMatchKey", "setRootKey", "setSpecificKey"}

\* A path string with an empty segment.
Malformed(path) == \E i \in 1..Len(Split(path)) : Split(path)[i] = ""

\* The value of an array holding the single element {n: v}.
SingleEntry(n, v) ==
  { <<(<<>>), "seq">>, <<(<<"0">>), "map">>, <<(<<"0", n>>), v>> }

\* The driver binaries that exist on the machine.
ExistingBinaries == {"/bin/driver"}

\* The indices of the elements of the array node at p.
Indices(doc, p) == { i \in 0..(Len(IndexKeys) - 1) : Append(p, IndexKey(i)) \in DOMAIN doc }

\* The element at el is a mapping with exactly one key.
SingleKeyMapping(doc, el) ==
  /\ doc[el] = "map"
  /\ Cardinality({ q \in DOMAIN doc : Len(q) = Len(el) + 1 /\ IsPrefix(el, q) }) = 1

\* C1: on a freshly constructed variant, addFirstMatch(n, v1) followed by
\* addFirstMatch(n, v2), both without force, leaves capabilities.firstMatch
\* equal to the one-element sequence [{n: v1}].
C1_SecondRegistrationDropped ==
  [][ ( /\ steps = 1 /\ op = "addFirstMatch" /\ argForce # "true"
        /\ op' = "addFirstMatch" /\ argForce' # "true" /\ argPath' = argPath )
      => ValueAt(sessionParameters', FM) = SingleEntry(argPath[1], argValue) ]_vars

\* C2: in every reachable state capabilities.alwaysMatch is a mapping and
\* capabilities.firstMatch is a sequence.
C2_ContainersPresent ==
  /\ AM \in DOMAIN sessionParameters /\ sessionParameters[AM] = "map"
  /\ FM \in DOMAIN sessionParameters /\ sessionParameters[FM] = "seq"

\* C3: setAlwaysMatchKey(p, y, force): a value already at p under alwaysMatch
\* stays unless force is true, in which case p holds y; when nothing is at
\* p, y is written whatever force is.
C3_FirstWriteWins ==
  op = "setAlwaysMatchKey" =>
    LET p      == AM \o Split(argPath)
        before == ValueAt(prev, p)
        after  == ValueAt(sessionParameters, p)
    IN  IF before # Undefined /\ argForce # "true"
          THEN after = before
          ELSE after = Scalar(argValue)

\* C4: a variant without specificKey keeps having none, and each of its
\* setSpecificKey calls raises and leaves the document as it was.
C4_NoSpecificKeyRaises ==
  /\ name = "browser" => specificKey = Null
  /\ (op = "setSpecificKey" /\ specificKey = Null) =>
       (threw /\ sessionParameters = prev)

C4_Witness ==
  /\ op = "setSpecificKey" /\ specificKey = Null /\ threw
  /\ steps = 2 /\ sessionParameters # EmptyDocument

\* C5: run() resolves only after a driver process was spawned, and fails
\* when the executable is unset or names a binary that does not exist.
C5_RunNeverSilentNoOp ==
  /\ runResult = "resolved" => spawned
  /\ (op = "run" /\ _executable \notin ExistingBinaries) => runResult = "rejected"

\* C6: the executable attribute is unset after construction, and after
\* setExecutable(p) it equals p, the document being left unchanged.
C6_ExecutableRecorded ==
  /\ steps = 0 => executable = Null
  /\ op = "setExecutable" => (executable = argValue /\ sessionParameters = prev)

\* C7: setRootKey(p, y) with force omitted (or true) leaves y at p whatever
\* was there; with an explicit force = false a value already at p stays.
C7_RootKeyOverwrites ==
  op = "setRootKey" =>
    LET p      == Split(argPath)
        before == ValueAt(prev, p)
        after  == ValueAt(sessionParameters, p)
    IN  /\ argForce # "false" => after = Scalar(argValue)
        /\ (argForce = "false" /\ before # Undefined) => after = before

C7_Witness ==
  /\ op = "setRootKey" /\ argForce = "omitted" /\ ~Malformed(argPath)
  /\ \E x \in Values : x # argValue /\ ValueAt(prev, Split(argPath)) = Scalar(x)
  /\ ValueAt(sessionParameters, Split(argPath)) = Scalar(argValue)

\* C8: a path-addressed setter called with a malformed path (an empty
\* segment) raises and leaves the document unchanged.
C8_MalformedPathRaises ==
  (op \in PathSetters /\ Malformed(argPath)) => (threw /\ sessionParameters = prev)

\* C9: every element of capabilities.firstMatch is a mapping with exactly
\* one key, and an addFirstMatch that changes the document appends exactly
\* {name: value} at the end, leaving the earlier elements as they were.
C9_SingleKeyEntries ==
  /\ FM \in DOMAIN sessionParameters =>
       \A i \in Indices(sessionParameters, FM) :
         SingleKeyMapping(sessionParameters, Append(FM, IndexKey(i)))
  /\ (op = "addFirstMatch" /\ sessionParameters # prev) =>
       LET el == Append(FM, IndexKey(Length(prev, FM)))
       IN  /\ DOMAIN sessionParameters = DOMAIN prev \cup {el, Append(el, argPath[1])}
           /\ sessionParameters[el] = "map"
           /\ sessionParameters[Append(el, argPath[1])] = argValue
           /\ \A q \in DOMAIN prev : sessionParameters[q] = prev[q]

\* C10: for a variant with specificKey K, setSpecificKey(p, v, false) leaves
\* a value already at capabilities.alwaysMatch.K.p in place, and writes v
\* there when nothing is there.
C10_SpecificKeyExistingWins ==
  (op = "setSpecificKey" /\ specificKey # Null /\ argForce = "false") =>
    LET p      == AM \o <<specificKey>> \o Split(argPath)
        before == ValueAt(prev, p)
        after  == ValueAt(sessionParameters, p)
    IN  IF before # Undefined THEN after = before ELSE after = Scalar(argValue)
====
